---------------------------- MODULE Spec2Model ----------------------------
(***************************************************************************)
(* Model of src/cpp/auxiliary/StringBuilder.h (namespace Aux / Aux::Impl): *)
(* the capability classifier getPrintableCategory, the recursive renderer  *)
(* printToStream / printToStreamTagged, and the template interpreter       *)
(* printToStreamF / printFormatPartToStream.                               *)
(*                                                                         *)
(* Text is a sequence of one-character strings.  A std::string iterator is *)
(* a 1-based position; the end iterator of a text t is Len(t) + 1.         *)
(***************************************************************************)
EXTENDS Integers, Sequences, FiniteSets, TLC

VARIABLES
    format,         \* the template handed to printToStreamF
    args,           \* the argument pack (a sequence of values)
    begin,          \* printFormatPartToStream's parameter / loop variable begin
    it,             \* the iterator printFormatPartToStream returned
    printArgument,  \* the flag printFormatPartToStream returned
    consumed,       \* how many arguments of the pack have been peeled off
    stream,         \* the characters written to the std::ostream so far
    pc,             \* the control position
    err,            \* what() of the std::invalid_argument thrown, or "none"
    tag             \* the PrintableCategoryTag printToStream dispatched on

vars == <<format, args, begin, it, printArgument, consumed, stream, pc, err, tag>>

---------------------------------------------------------------------------
(* Bounds of the model. *)

\* longest template
MaxLen == 4
\* largest argument pack handed to printToStreamF
MaxArgs == 2
\* most elements of a tuple or a sequence
MaxElems == 2
\* most elements of a tuple or a sequence that is itself an element
MaxInner == 1

RECURSIVE SeqsOfLen(_, _)
SeqsOfLen(S, n) ==
    IF n = 0 THEN {<<>>}
    ELSE {Append(s, x) : s \in SeqsOfLen(S, n - 1), x \in S}

SeqsUpTo(S, n) == UNION {SeqsOfLen(S, k) : k \in 0..n}

---------------------------------------------------------------------------
(* Types and values.  A type is known to the code only through the four    *)
(* capability predicates; a value carries its type, its native text (what  *)
(* operator<< writes, when the type is streamable) and its components      *)
(* (first/second, std::get<i>, or the begin()..end() range).               *)

Type(s, p, t, i) == [streamable |-> s, pair |-> p, tuple |-> t, iteratable |-> i]

Types == [streamable : BOOLEAN, pair : BOOLEAN, tuple : BOOLEAN, iteratable : BOOLEAN]

IntType    == Type(TRUE, FALSE, FALSE, FALSE)
StringType == Type(TRUE, FALSE, FALSE, TRUE)
PairType   == Type(FALSE, TRUE, FALSE, FALSE)
TupleType  == Type(FALSE, FALSE, TRUE, FALSE)
VectorType == Type(FALSE, FALSE, FALSE, TRUE)

Value(T, text, elems) == [type |-> T, text |-> text, elems |-> elems]

Char(c) == Value(IntType, <<c>>, <<>>)

\* int 1 and std::string "ab" (streamable, and a range of its characters)
Atoms ==
    { Value(IntType, <<"1">>, <<>>),
      Value(StringType, <<"a", "b">>, <<Char("a"), Char("b")>>) }

\* std::pair, std::tuple (N >= 1) and sequence values over a set of
\* elements, a tuple or a sequence holding at most n of them
Composites(E, n) ==
    {Value(PairType, <<>>, e) : e \in SeqsOfLen(E, 2)}
    \cup {Value(TupleType, <<>>, e) : e \in SeqsUpTo(E, n) \ {<<>>}}
    \cup {Value(VectorType, <<>>, e) : e \in SeqsUpTo(E, n)}

\* the elements of a composite: atoms, and composites of atoms
InnerValues(E) == E \cup Composites(E, MaxInner)

\* the values rendered: the elements, and composites of them
NestedValues(E) == E \cup Composites(E, MaxElems)

\* A value of any of the 16 capability combinations: a pair has two
\* components, a tuple at least one, a type that is no composite none.
WellShaped(T, e) ==
    /\ T.pair => Len(e) = 2
    /\ T.tuple => Len(e) >= 1
    /\ ~(T.pair \/ T.tuple \/ T.iteratable) => Len(e) = 0

AnyTypeValues ==
    {v \in {Value(T, IF T.streamable THEN <<"x">> ELSE <<>>, e) :
                T \in Types, e \in SeqsUpTo(Atoms, MaxElems)} :
        WellShaped(v.type, v.elems)}

PrintValues(E) == NestedValues(InnerValues(E)) \cup AnyTypeValues

\* The arguments tried by the template interpreter: an int, a std::string
\* whose text looks like a placeholder, and a pair of ints.
ArgValues ==
    { Value(IntType, <<"1">>, <<>>),
      Value(StringType, <<"%", "s">>, <<Char("%"), Char("s")>>),
      Value(PairType, <<>>, <<Char("1"), Char("2")>>) }

FormatChars == {"a", "%", "s", "q"}

---------------------------------------------------------------------------
(* Capability classifier. *)

isStreamable(T) == T.streamable
isPair(T)       == T.pair
isTuple(T)      == T.tuple
isIteratable(T) == T.iteratable

\* faulty variant: the range test is made first
getPrintableCategory_IterFirst(T) ==
    IF isIteratable(T) THEN "Iteratable"
    ELSE IF isStreamable(T) THEN "Streamable"
    ELSE IF isPair(T) THEN "Pair"
    ELSE IF isTuple(T) THEN "Tuple"
    ELSE "Unprintable"

getPrintableCategory(T) ==
    IF isStreamable(T) THEN "Streamable"
    ELSE IF isPair(T) THEN "Pair"
    ELSE IF isTuple(T) THEN "Tuple"
    ELSE IF isIteratable(T) THEN "Iteratable"
    ELSE "Unprintable"

---------------------------------------------------------------------------
(* Renderer.  Each operator yields the characters the function appends to  *)
(* the stream.                                                             *)

RECURSIVE printToStream(_)
RECURSIVE printTupleHelper(_, _, _)
RECURSIVE printIteratableLoop(_, _, _)

\* stream << arg
printStreamableTagged(arg) == arg.text

printPairTagged(arg) ==
    <<"(">> \o printToStream(arg.elems[1]) \o <<",", " ">>
            \o printToStream(arg.elems[2]) \o <<")">>

\* printTupleHelper<Tuple, I, TupleSize>::print; I = TupleSize is the
\* partial specialisation that ends the recursion
\* faulty variant: no specialisation for the last element
printTupleHelper_SepAfterLast(arg, I, TupleSize) ==
    IF I > TupleSize THEN <<>>
    ELSE printToStream(arg.elems[I]) \o <<",", " ">>
            \o printTupleHelper(arg, I + 1, TupleSize)

printTupleHelper(arg, I, TupleSize) ==
    IF I = TupleSize
    THEN printToStream(arg.elems[I])
    ELSE printToStream(arg.elems[I]) \o <<",", " ">>
            \o printTupleHelper(arg, I + 1, TupleSize)

printTupleTagged(arg) ==
    <<"(">> \o printTupleHelper(arg, 1, Len(arg.elems)) \o <<")">>

\* the while (it != end) loop of the Iteratable overload
\* faulty variant: the separator is written on the first pass too
printIteratableLoop_NoFirstpass(arg, i, firstpass) ==
    IF i = Len(arg.elems) + 1 THEN <<>>
    ELSE <<",", " ">> \o printToStream(arg.elems[i])
            \o printIteratableLoop(arg, i + 1, FALSE)

printIteratableLoop(arg, i, firstpass) ==
    IF i = Len(arg.elems) + 1 THEN <<>>
    ELSE (IF firstpass THEN <<>> ELSE <<",", " ">>)
            \o printToStream(arg.elems[i])
            \o printIteratableLoop(arg, i + 1, FALSE)

printIteratableTagged(arg) ==
    <<"[">> \o printIteratableLoop(arg, 1, TRUE) \o <<"]">>

printToStreamTagged(arg, t) ==
    CASE t = "Streamable" -> printStreamableTagged(arg)
      [] t = "Pair"       -> printPairTagged(arg)
      [] t = "Tuple"      -> printTupleTagged(arg)
      [] t = "Iteratable" -> printIteratableTagged(arg)

\* Impl::printToStream(stream, arg): dispatch on the category of arg's type
printToStream(arg) == printToStreamTagged(arg, getPrintableCategory(arg.type))

---------------------------------------------------------------------------
(* Template interpreter: Aux::printToStreamF(stream, format, args...).     *)

End == Len(format) + 1

\* std::find(b, end, '%')
find(b) ==
    IF \E p \in b..Len(format) : format[p] = "%"
    THEN CHOOSE p \in b..Len(format) :
            /\ format[p] = "%"
            /\ \A q \in b..(p - 1) : format[q] # "%"
    ELSE End

MoreArguments == "formatstring requests more arguments then provided"
UnmatchedPercent == "formatstrings must not end on unmatched '%'"
IllegalSpecifier == "formatstring contains illegal format-specifier"

Init ==
    /\ format \in SeqsUpTo(FormatChars, MaxLen)
    /\ args \in SeqsUpTo(ArgValues, MaxArgs)
    /\ begin = 1
    /\ it = 0
    /\ printArgument = FALSE
    /\ consumed = 0
    /\ stream = <<>>
    /\ pc = "printToStreamF"
    /\ err = "none"
    /\ tag = "none"

\* printFormatPartToStream has been called with an empty range
InPartEmpty == pc = "printToStreamF" /\ begin = End

\* control is at the top of the while (true) loop
AtLoopTop == pc = "loop" \/ (pc = "printToStreamF" /\ begin # End)

\* if (begin == end) return std::make_tuple(end, false);
PartEmpty ==
    /\ InPartEmpty
    /\ it' = End
    /\ printArgument' = FALSE
    /\ pc' = "returned"
    /\ UNCHANGED <<format, args, begin, consumed, stream, err, tag>>

\* One pass through the loop that finds no further '%': the rest of the
\* template is written and (end, false) returned.  After a final "%%" the
\* pass starts with begin = end: the address &*begin is taken of the end
\* iterator, which the language leaves undefined; the iterator wraps a
\* pointer into the string's buffer, whose terminator it then points at,
\* nothing is read through it and write() is asked for 0 characters, so
\* the pass writes nothing and returns.
WriteRest ==
    /\ AtLoopTop
    /\ find(begin) = End
    /\ stream' = stream \o SubSeq(format, begin, End - 1)
    /\ it' = End
    /\ printArgument' = FALSE
    /\ pc' = "returned"
    /\ UNCHANGED <<format, args, begin, consumed, err, tag>>

\* faulty variant: the write is one character short
WriteToPercent_ShortWrite ==
    /\ AtLoopTop
    /\ find(begin) # End
    /\ stream' = stream \o SubSeq(format, begin, find(begin) - 2)
    /\ begin' = find(begin) + 1
    /\ pc' = "afterPercent"
    /\ UNCHANGED <<format, args, it, printArgument, consumed, err, tag>>

\* The text up to the next '%' is written; begin = ++nextPercent
WriteToPercent ==
    /\ AtLoopTop
    /\ find(begin) # End
    /\ stream' = stream \o SubSeq(format, begin, find(begin) - 1)
    /\ begin' = find(begin) + 1
    /\ pc' = "afterPercent"
    /\ UNCHANGED <<format, args, it, printArgument, consumed, err, tag>>

\* faulty variant: a trailing '%' ends the template quietly
ThrowUnmatched_ReturnEnd ==
    /\ pc = "afterPercent"
    /\ begin = End
    /\ it' = End
    /\ printArgument' = FALSE
    /\ pc' = "returned"
    /\ UNCHANGED <<format, args, begin, consumed, stream, err, tag>>

\* if (begin == end) throw
ThrowUnmatched ==
    /\ pc = "afterPercent"
    /\ begin = End
    /\ pc' = "error"
    /\ err' = UnmatchedPercent
    /\ UNCHANGED <<format, args, begin, it, printArgument, consumed, stream, tag>>

\* else if (*begin == '%') { stream.put('%'); ++begin; }
PutPercent ==
    /\ pc = "afterPercent"
    /\ begin # End
    /\ format[begin] = "%"
    /\ stream' = Append(stream, "%")
    /\ begin' = begin + 1
    /\ pc' = "loop"
    /\ UNCHANGED <<format, args, it, printArgument, consumed, err, tag>>

\* else if (*begin == 's') { ++begin; return std::make_tuple(begin, true); }
ReturnPlaceholder ==
    /\ pc = "afterPercent"
    /\ begin # End
    /\ format[begin] = "s"
    /\ begin' = begin + 1
    /\ it' = begin + 1
    /\ printArgument' = TRUE
    /\ pc' = "returned"
    /\ UNCHANGED <<format, args, consumed, stream, err, tag>>

\* faulty variant: an unknown specifier is copied as text
ThrowIllegal_CopyVerbatim ==
    /\ pc = "afterPercent"
    /\ begin # End
    /\ format[begin] \notin {"%", "s"}
    /\ stream' = stream \o <<"%", format[begin]>>
    /\ begin' = begin + 1
    /\ pc' = "loop"
    /\ UNCHANGED <<format, args, it, printArgument, consumed, err, tag>>

\* else throw
ThrowIllegal ==
    /\ pc = "afterPercent"
    /\ begin # End
    /\ format[begin] \notin {"%", "s"}
    /\ pc' = "error"
    /\ err' = IllegalSpecifier
    /\ UNCHANGED <<format, args, begin, it, printArgument, consumed, stream, tag>>

\* faulty variant: a placeholder without argument is dropped
ThrowMoreArguments_Ignore ==
    /\ pc = "returned"
    /\ consumed = Len(args)
    /\ printArgument
    /\ pc' = "done"
    /\ UNCHANGED <<format, args, begin, it, printArgument, consumed, stream, err, tag>>

\* the overload without arguments: a placeholder was found
ThrowMoreArguments ==
    /\ pc = "returned"
    /\ consumed = Len(args)
    /\ printArgument
    /\ pc' = "error"
    /\ err' = MoreArguments
    /\ UNCHANGED <<format, args, begin, it, printArgument, consumed, stream, tag>>

\* the overload without arguments: the template is used up
ReturnNoArguments ==
    /\ pc = "returned"
    /\ consumed = Len(args)
    /\ ~printArgument
    /\ pc' = "done"
    /\ UNCHANGED <<format, args, begin, it, printArgument, consumed, stream, err, tag>>

\* faulty variant: the argument is consumed but not written
PrintArgument_Skip ==
    /\ pc = "returned"
    /\ consumed < Len(args)
    /\ printArgument
    /\ consumed' = consumed + 1
    /\ tag' = getPrintableCategory(args[consumed + 1].type)
    /\ begin' = it
    /\ pc' = "printToStreamF"
    /\ UNCHANGED <<format, args, it, printArgument, stream, err>>

\* printToStream(stream, arg); printToStreamF(stream, it, format_end, args...);
PrintArgument ==
    /\ pc = "returned"
    /\ consumed < Len(args)
    /\ printArgument
    /\ stream' = stream \o printToStream(args[consumed + 1])
    /\ consumed' = consumed + 1
    /\ tag' = getPrintableCategory(args[consumed + 1].type)
    /\ begin' = it
    /\ pc' = "printToStreamF"
    /\ UNCHANGED <<format, args, it, printArgument, err>>

\* faulty variant: surplus arguments are an error
ReturnSurplus_Throw ==
    /\ pc = "returned"
    /\ consumed < Len(args)
    /\ ~printArgument
    /\ pc' = "error"
    /\ err' = MoreArguments
    /\ UNCHANGED <<format, args, begin, it, printArgument, consumed, stream, tag>>

\* else { assert(it == format_end); return; } with arguments left over
ReturnSurplus ==
    /\ pc = "returned"
    /\ consumed < Len(args)
    /\ ~printArgument
    /\ pc' = IF it = End THEN "done" ELSE "aborted"
    /\ UNCHANGED <<format, args, begin, it, printArgument, consumed, stream, err, tag>>

Next ==
    \/ PartEmpty
    \/ WriteRest
    \/ WriteToPercent
    \/ ThrowUnmatched
    \/ PutPercent
    \/ ReturnPlaceholder
    \/ ThrowIllegal
    \/ ThrowMoreArguments
    \/ ReturnNoArguments
    \/ PrintArgument
    \/ ReturnSurplus

Spec == Init /\ [][Next]_vars

\* The interpreter is one sequential call: it keeps running until it
\* returns or throws.
FairSpec == Init /\ [][Next]_vars /\ WF_vars(Next)

---------------------------------------------------------------------------
(* Direct rendering of one value: Aux::printToStream(stream, arg).         *)

PrintInit ==
    /\ format = <<>>
    /\ args \in {<<v>> : v \in PrintValues(Atoms)}
    /\ begin = 1
    /\ it = 0
    /\ printArgument = FALSE
    /\ consumed = 0
    /\ stream = <<>>
    /\ pc = "printToStream"
    /\ err = "none"
    /\ tag = "none"

\* static_assert(getPrintableCategory<T>() != PrintableCategory::Unprintable)
StaticAssert ==
    /\ pc = "printToStream"
    /\ getPrintableCategory(args[1].type) = "Unprintable"
    /\ tag' = getPrintableCategory(args[1].type)
    /\ pc' = "rejected"
    /\ UNCHANGED <<format, args, begin, it, printArgument, consumed, stream, err>>

\* PrintableCategoryTag<getPrintableCategory<T>()>{}
Dispatch ==
    /\ pc = "printToStream"
    /\ getPrintableCategory(args[1].type) # "Unprintable"
    /\ tag' = getPrintableCategory(args[1].type)
    /\ pc' = "tagged"
    /\ UNCHANGED <<format, args, begin, it, printArgument, consumed, stream, err>>

\* the overload chosen by the tag runs, then printToStream(stream) on the
\* empty rest of the pack
Tagged(t, text) ==
    /\ pc = "tagged"
    /\ tag = t
    /\ stream' = stream \o text
    /\ consumed' = 1
    /\ pc' = "done"
    /\ UNCHANGED <<format, args, begin, it, printArgument, err, tag>>

StreamableTagged == Tagged("Streamable", printStreamableTagged(args[1]))
PairTagged       == Tagged("Pair", printPairTagged(args[1]))
TupleTagged      == Tagged("Tuple", printTupleTagged(args[1]))
IteratableTagged == Tagged("Iteratable", printIteratableTagged(args[1]))

PrintNext ==
    \/ StaticAssert
    \/ Dispatch
    \/ StreamableTagged
    \/ PairTagged
    \/ TupleTagged
    \/ IteratableTagged

PrintSpec == PrintInit /\ [][PrintNext]_vars

---------------------------------------------------------------------------
(* Reference reading of the specification, against which the code is       *)
(* compared: first-match classification, rendering by joining, and the     *)
(* template read token by token.                                           *)

Precedence == <<"Streamable", "Pair", "Tuple", "Iteratable">>

Holds(T, c) ==
    CASE c = "Streamable" -> T.streamable
      [] c = "Pair"       -> T.pair
      [] c = "Tuple"      -> T.tuple
      [] c = "Iteratable" -> T.iteratable

FirstMatch(T) ==
    IF \E i \in 1..Len(Precedence) : Holds(T, Precedence[i])
    THEN Precedence[CHOOSE i \in 1..Len(Precedence) :
                        /\ Holds(T, Precedence[i])
                        /\ \A j \in 1..(i - 1) : ~Holds(T, Precedence[j])]
    ELSE "Unprintable"

Separator == <<",", " ">>

RECURSIVE Join(_)
Join(texts) ==
    IF Len(texts) = 0 THEN <<>>
    ELSE IF Len(texts) = 1 THEN texts[1]
    ELSE texts[1] \o Separator \o Join(Tail(texts))

RECURSIVE TotalLen(_)
TotalLen(texts) ==
    IF Len(texts) = 0 THEN 0 ELSE Len(texts[1]) + TotalLen(Tail(texts))

RECURSIVE Rendering(_)
Rendering(v) ==
    LET parts == [i \in 1..Len(v.elems) |-> Rendering(v.elems[i])]
    IN  CASE FirstMatch(v.type) = "Streamable" -> v.text
          [] FirstMatch(v.type) \in {"Pair", "Tuple"} ->
                <<"(">> \o Join(parts) \o <<")">>
          [] FirstMatch(v.type) = "Iteratable" ->
                <<"[">> \o Join(parts) \o <<"]">>

\* The template as tokens, read left to right; reading stops at the first
\* token that is no literal, "%%" or "%s".
RECURSIVE Tokenize(_, _)
Tokenize(fmt, p) ==
    IF p > Len(fmt) THEN <<>>
    ELSE IF fmt[p] # "%"
        THEN <<[kind |-> "literal", ch |-> fmt[p], at |-> p]>> \o Tokenize(fmt, p + 1)
    ELSE IF p = Len(fmt)
        THEN <<[kind |-> "trailing", ch |-> "%", at |-> p]>>
    ELSE IF fmt[p + 1] = "%"
        THEN <<[kind |-> "percent", ch |-> "%", at |-> p]>> \o Tokenize(fmt, p + 2)
    ELSE IF fmt[p + 1] = "s"
        THEN <<[kind |-> "placeholder", ch |-> "s", at |-> p]>> \o Tokenize(fmt, p + 2)
    ELSE <<[kind |-> "illegal", ch |-> fmt[p + 1], at |-> p]>>

Tokens(fmt) == Tokenize(fmt, 1)

PlaceholderAt(fmt) == {i \in 1..Len(Tokens(fmt)) : Tokens(fmt)[i].kind = "placeholder"}

Placeholders(fmt) == Cardinality(PlaceholderAt(fmt))

WellFormed(fmt) ==
    \A i \in 1..Len(Tokens(fmt)) : Tokens(fmt)[i].kind \notin {"trailing", "illegal"}

\* the output for a sequence of well-formed tokens
RECURSIVE Substitute(_, _)
Substitute(toks, as) ==
    IF Len(toks) = 0 THEN <<>>
    ELSE IF Head(toks).kind = "placeholder"
        THEN Rendering(Head(as)) \o Substitute(Tail(toks), Tail(as))
    ELSE <<Head(toks).ch>> \o Substitute(Tail(toks), as)

\* the first error met reading fmt left to right with n arguments, and the
\* position of the '%' it is met at
FirstErrorIndex(fmt, n) ==
    IF Placeholders(fmt) > n
    THEN CHOOSE i \in PlaceholderAt(fmt) :
            Cardinality({j \in PlaceholderAt(fmt) : j < i}) = n
    ELSE IF ~WellFormed(fmt) THEN Len(Tokens(fmt))
    ELSE 0

FirstError(fmt, n) ==
    IF FirstErrorIndex(fmt, n) = 0 THEN "none"
    ELSE CASE Tokens(fmt)[FirstErrorIndex(fmt, n)].kind = "placeholder" -> MoreArguments
           [] Tokens(fmt)[FirstErrorIndex(fmt, n)].kind = "trailing" -> UnmatchedPercent
           [] Tokens(fmt)[FirstErrorIndex(fmt, n)].kind = "illegal" -> IllegalSpecifier

\* the interpreter's state in the specification's state machine
InterpState ==
    CASE pc \in {"printToStreamF", "loop", "returned"} -> "Copying"
      [] pc = "afterPercent" -> "AfterPercent"
      [] pc = "done" -> "Done"
      [] pc = "error" -> "Error"
      [] OTHER -> "None"

\* the template cursor: begin inside printFormatPartToStream, the returned
\* iterator in printToStreamF after the call
Cursor ==
    IF pc \in {"returned", "done", "aborted"} \/ (pc = "error" /\ err = MoreArguments)
    THEN it
    ELSE begin

---------------------------------------------------------------------------
(* Properties of the program. *)

Arg == args[1]

\* C1: getPrintableCategory gives every type exactly one category, the
\* first capability that holds in the order Streamable, Pair, Tuple,
\* Iteratable, and Unprintable exactly when none of the four holds.
C1_FirstMatchWins ==
    pc # "printToStream" =>
        /\ tag \in {"Streamable", "Pair", "Tuple", "Iteratable", "Unprintable"}
        /\ tag = FirstMatch(Arg.type)
        /\ tag # "Unprintable" => Holds(Arg.type, tag)
        /\ tag = "Unprintable" <=>
                ~(Arg.type.streamable \/ Arg.type.pair \/ Arg.type.tuple
                    \/ Arg.type.iteratable)
        /\ (pc = "rejected") <=> (tag = "Unprintable")

\* a type that is streamable, a tuple and a range has been classified
C1_Witness ==
    /\ pc = "done"
    /\ Arg.type = Type(TRUE, FALSE, TRUE, TRUE)
    /\ tag = "Streamable"
    /\ stream = <<"x">>

\* C7: a sequence of n elements is rendered as "[", the renderings of its
\* elements in traversal order joined by ", " (max(0, n-1) separators), "]";
\* the empty sequence as "[]"; each element under its own category.
C7_SequenceRendering ==
    (pc = "done" /\ tag = "Iteratable") =>
        LET n == Len(Arg.elems)
            parts == [i \in 1..n |-> Rendering(Arg.elems[i])]
        IN  /\ stream = <<"[">> \o Join(parts) \o <<"]">>
            /\ Len(stream) = 2 + TotalLen(parts)
                                + Len(Separator) * (IF n = 0 THEN 0 ELSE n - 1)
            /\ n = 0 => stream = <<"[", "]">>
            /\ \A i \in 1..n :
                    \E k \in 1..Len(stream) :
                        SubSeq(stream, k, k + Len(parts[i]) - 1) = parts[i]

\* a sequence of two pairs has been rendered: [(1, ab), (ab, 1)]
C7_Witness ==
    /\ pc = "done"
    /\ tag = "Iteratable"
    /\ stream = <<"[", "(", "1", ",", " ", "a", "b", ")", ",", " ",
                   "(", "a", "b", ",", " ", "1", ")", "]">>

\* C8: a pair or a tuple of N >= 1 elements is rendered as "(", the
\* renderings of elements 1..N in positional order joined by ", " (N-1
\* separators), ")"; a 1-element tuple has no separator.
C8_TupleRendering ==
    (pc = "done" /\ tag \in {"Pair", "Tuple"}) =>
        LET N == Len(Arg.elems)
            parts == [i \in 1..N |-> Rendering(Arg.elems[i])]
        IN  /\ N >= 1
            /\ tag = "Pair" => N = 2
            /\ stream = <<"(">> \o Join(parts) \o <<")">>
            /\ Len(stream) = 2 + TotalLen(parts) + Len(Separator) * (N - 1)
            /\ N = 1 => stream = <<"(">> \o Rendering(Arg.elems[1]) \o <<")">>

\* a 1-element tuple holding a sequence has been rendered: ([ab])
C8_Witness ==
    /\ pc = "done"
    /\ tag = "Tuple"
    /\ Len(Arg.elems) = 1
    /\ stream = <<"(", "[", "a", "b", "]", ")">>

K == Placeholders(format)

\* C2: for a template with no illegal specifier and no trailing '%', with
\* k "%s" and n >= k arguments, interpretation succeeds and its output is
\* the template with literals copied, "%%" as one '%', and the i-th "%s"
\* replaced by the rendering of the i-th argument.
C2_WellFormedOutput ==
    (WellFormed(format) /\ K <= Len(args)) =>
        /\ pc \notin {"error", "aborted"}
        /\ pc # "done" => ENABLED Next
        /\ pc = "done" => stream = Substitute(Tokens(format), args)

\* "%%%s" or "%s%%": an escaped '%' and the rendering of a pair have been
\* written
C2_Witness ==
    /\ pc = "done"
    /\ consumed = 1
    /\ Len(args) = 1
    /\ args[1].type = PairType
    /\ \E i \in 1..Len(Tokens(format)) : Tokens(format)[i].kind = "percent"

\* C3: when a "%s" is reached and no unconsumed argument remains, the
\* "more arguments requested than provided" error is raised and the call
\* never completes successfully.
C3_MissingArgument ==
    /\ (pc = "returned" /\ printArgument /\ consumed = Len(args)) => K > Len(args)
    /\ K > Len(args) =>
        /\ pc \notin {"done", "aborted"}
        /\ pc = "error" => err = MoreArguments
        /\ pc # "error" => ENABLED Next

\* one argument was rendered, a second "%s" found none
C3_Witness ==
    /\ pc = "error"
    /\ err = MoreArguments
    /\ consumed = 1
    /\ Len(args) = 1

\* C4: with more arguments than "%s" in a well-formed template the call
\* succeeds, the surplus arguments are never rendered, the output is that
\* for the first k arguments alone, and the cursor ends at the template's end.
C4_SurplusDiscarded ==
    (WellFormed(format) /\ K < Len(args)) =>
        /\ pc \notin {"error", "aborted"}
        /\ consumed <= K
        /\ pc # "done" => ENABLED Next
        /\ pc = "done" =>
            /\ consumed = K
            /\ Cursor = End
            /\ it = End
            /\ stream = Substitute(Tokens(format), SubSeq(args, 1, K))

\* one argument rendered, one left over
C4_Witness ==
    /\ pc = "done"
    /\ consumed = 1
    /\ Len(args) = 2
    /\ Len(stream) > 0

\* C5: in AfterPercent with a next character other than 's' and '%' the
\* call ends in Error with the illegal-specifier error, however many
\* arguments there are.
C5_IllegalSpecifier ==
    [][(InterpState = "AfterPercent" /\ begin # End /\ format[begin] \notin {"s", "%"})
        => (InterpState' = "Error" /\ err' = IllegalSpecifier)]_vars

\* the illegal specifier was met with an argument still unconsumed
C5_Witness ==
    /\ pc = "error"
    /\ err = IllegalSpecifier
    /\ consumed = 1
    /\ Len(args) = 2

\* C6: end of template in AfterPercent ends in Error with the unmatched-'%'
\* error, never in Done; Done is entered only from Copying with the whole
\* template read.
C6_TrailingPercent ==
    [][/\ (InterpState = "AfterPercent" /\ begin = End)
            => (InterpState' = "Error" /\ err' = UnmatchedPercent)
       /\ (InterpState' = "Done" /\ InterpState # "Done")
            => (InterpState = "Copying" /\ Cursor = End)]_vars

\* a template ending in an unescaped '%' after a rendered argument
C6_Witness ==
    /\ pc = "error"
    /\ err = UnmatchedPercent
    /\ consumed = 1
    /\ format[Len(format)] = "%"

\* C9: interpretation ends in Done or Error; the cursor strictly advances
\* on every pass of the scanning loop, never moves back, and at most one
\* argument is consumed per "%s".
C9_CursorAdvances ==
    /\ <>(InterpState \in {"Done", "Error"})
    /\ [][/\ AtLoopTop => Cursor' > Cursor
          /\ Cursor' >= Cursor
          /\ consumed' \in {consumed, consumed + 1}
          /\ consumed' = consumed + 1 =>
                (printArgument /\ format[it - 2] = "%" /\ format[it - 1] = "s")]_vars

\* the '%' at which the error was raised
OffendingPercent == IF err = MoreArguments THEN it - 2 ELSE begin - 1

\* C10: when the call ends in one of the three errors, the sink holds
\* exactly the output for the template before the offending '%' and
\* nothing from after it, and the error is the first met left to right.
C10_PartialOutput ==
    pc = "error" =>
        LET p == OffendingPercent
            prefix == SubSeq(format, 1, p - 1)
        IN  /\ p \in 1..Len(format)
            /\ format[p] = "%"
            /\ WellFormed(prefix)
            /\ Placeholders(prefix) = consumed
            /\ stream = Substitute(Tokens(prefix), args)
            /\ err = FirstError(format, Len(args))
            /\ p = Tokens(format)[FirstErrorIndex(format, Len(args))].at

\* "a%s%": the missing argument is reported, not the trailing '%' behind
\* it, and the literal text before it is in the sink
C10_Witness ==
    /\ pc = "error"
    /\ err = MoreArguments
    /\ ~WellFormed(format)
    /\ Len(stream) > 0

=============================================================================
